---- MODULE Spec2Model ----
(***************************************************************************)
(* Model of the macro-template update code of the trading system:          *)
(*   - the Benchmark Yields backfill handlers of src/app.py                *)
(*     (backfill_yields_endpoint, backfill_yields_v2,                      *)
(*      backfill_yields_correct, backfill_yields_final), which download    *)
(*     one workbook, edit it with openpyxl and upload it again;            *)
(*   - the DataFrame based update strategy of                              *)
(*     src/services/data_update_strategy.py (backfill_template,            *)
(*     update_template_incremental, update_all_macro_templates,            *)
(*     cleanup_old_data) and the file helpers of                           *)
(*     src/services/excel_handler.py (update_cell_in_drive,                *)
(*     append_rows_to_drive);                                              *)
(*   - the template audits of src/app.py (audit_templates,                 *)
(*     audit_templates_v2);                                                *)
(*   - two requests on the yields workbook served at the same time.        *)
(* Dates are small integers (days), cell values are integers, an empty     *)
(* openpyxl cell is Empty.                                                 *)
(***************************************************************************)
EXTENDS Integers, Sequences, FiniteSets, TLC

\* ------------------------------------------------------------------ bounds
\* Largest date (a day number) of the model; "now" is MaxDate.
MaxDate == 2
\* Most data rows the Data sheet holds before a handler runs.
MaxOldRows == 2

Dates == 1..MaxDate

\* ------------------------------------------------------- program constants
\* Value of an openpyxl cell that was never written (None).
Empty == 0
\* pandas NaN, the result of pd.to_numeric(errors='coerce') on '.'.
NaN == -1
\* First data row of the Data sheet (rows 1..3 are headers).
StartRow == 4
\* Column A holds the date.
DateCol == 1
\* Column B, where the per-sheet endpoint writes the value.
ValueCol == 2

\* The FRED series of the Data sheet (a subset of the 17 series of the source,
\* with their columns): one supplementary series and two main series.
AllSeriesIds == {"DFF", "DGS2", "DGS10"}
all_series == [s \in AllSeriesIds |->
                 CASE s = "DFF" -> 2 [] s = "DGS2" -> 7 [] s = "DGS10" -> 11]
main_series == <<"DGS2", "DGS10">>
Cols == {DateCol, ValueCol} \cup {all_series[s] : s \in AllSeriesIds}

\* Sheets of the per-series endpoint and of the charts (same names in the source).
yield_series == [n \in {"2yr", "10yr"} |-> IF n = "2yr" THEN "DGS2" ELSE "DGS10"]
yield_order == <<"2yr", "10yr">>
chart_configs == <<[sheet_name |-> "10yr", data_col |-> 11],
                   [sheet_name |-> "2yr", data_col |-> 7]>>
curve_columns == <<7, 11>>

\* ------------------------------------------------------------ the workbook
BlankRow == [c \in Cols |-> Empty]
\* A header row: every cell holds the label of its column (here its number).
HeaderRow == [c \in Cols |-> c + 100]
\* A data row left by an earlier update: its date and, in every series column,
\* an old value (never a value the source returns in this model).
OldRow(d) == [c \in Cols |-> IF c = DateCol THEN d ELSE c + 200]

\* ws.max_row: 1 for a sheet without cells.
MaxRowOf(rows) == IF Len(rows) = 0 THEN 1 ELSE Len(rows)

Pad(rows, r) ==
  IF Len(rows) >= r THEN rows
  ELSE rows \o [i \in 1..(r - Len(rows)) |-> BlankRow]

\* ws.cell(row=r, column=c, value=v): the cell is created if need be, and it
\* is assigned only when v is not None.
SetCell(rows, r, c, v) ==
  LET p == Pad(rows, r)
  IN IF v = Empty THEN p ELSE [p EXCEPT ![r] = [@ EXCEPT ![c] = v]]

\* ws.cell(row=r, column=c).value
GetCell(rows, r, c) == IF r >= 1 /\ r <= Len(rows) THEN rows[r][c] ELSE Empty

\* ws.insert_rows(idx, amount): the cells of rows >= idx move down by amount.
InsertRows(rows, idx, amount) ==
  IF idx > Len(rows) THEN rows
  ELSE SubSeq(rows, 1, idx - 1) \o [i \in 1..amount |-> BlankRow]
         \o SubSeq(rows, idx, Len(rows))

\* ------------------------------------------------------------- the source
\* Raw 'value' strings of a FRED observation: '.' marks a missing value.
RawValues == {".", "1"}
\* The observation lists get_series can return: at most one per date.
ObsLists ==
  UNION { { {[date |-> d, value |-> f[d]] : d \in S} : f \in [S -> RawValues] }
          : S \in SUBSET Dates }
\* What one client.get_series call does: raises, returns None, or returns data.
FetchOutcomes ==
  {[kind |-> "raise", observations |-> {}], [kind |-> "none", observations |-> {}]}
    \cup {[kind |-> "ok", observations |-> o] : o \in ObsLists}

\* pd.to_numeric(df['value'], errors='coerce')
ToNumeric(v) == IF v = "1" THEN 1 ELSE NaN

\* df.dropna(subset=['date', 'value'])
DropNa(df) == {o \in df : o.value # NaN}

\* One iteration of the fetch loop: whether the series enters all_series_data.
\* The exception of get_series, a None result and an empty observation list
\* (pd.DataFrame([])['date'] raises KeyError) all leave the series out.
SeriesFetched(out) == out.kind = "ok" /\ out.observations # {}

\* How one get_series call ended, as the fetch loop tells the cases apart: it
\* raised, returned None, returned no observation, or returned observations.
KindOf(out) ==
  IF out.kind = "ok" /\ out.observations = {} THEN "empty" ELSE out.kind

SeriesFrame(out) ==
  DropNa({[date |-> o.date, value |-> ToNumeric(o.value)] : o \in out.observations})

\* all_series_data after the fetch loop, for the outcomes f (series -> outcome).
AllSeriesData(f) ==
  [s \in {x \in DOMAIN f : SeriesFetched(f[x])} |-> SeriesFrame(f[s])]

\* set(df['date'].tolist())
DatesOf(df) == {o.date : o \in df}

\* sorted(list(S), reverse=True)
RECURSIVE SortDesc(_)
SortDesc(S) ==
  IF S = {} THEN <<>>
  ELSE LET m == CHOOSE x \in S : \A y \in S : y <= x
       IN <<m>> \o SortDesc(S \ {m})

\* ------------------------------------------------------------------ state
VARIABLES
  drive,        \* the workbook stored on Drive: sheet name -> [rows, charts]
  pre,          \* the stored workbook when the last handler started
  asd,          \* all_series_data of the last handler
  sorted_dates, \* sorted_dates of the last handler
  resp,         \* the response of the last handler
  fetch_kind,   \* series -> how its get_series call of the last handler ended
  files,        \* template -> the DataFrame stored in its Excel file
  source,       \* template -> the observations its upstream source holds
  fetch_func,   \* template -> the kind of fetch function configured for it
  now,          \* datetime.now(), a day number
  prefiles,     \* files when the last template operation started
  result,       \* what the last backfill_template / update_template_incremental did
  prev,         \* which operation ran before the last one, and how it ended
  summary,      \* what the last update_all_macro_templates did
  book,         \* the workbook the auditor reads: a sequence of sheets
  audit,        \* the entry the last audit produced for that workbook
  sheets,       \* template -> the sheet names of its workbook, in order
  presheets,    \* sheets before the last template update
  reqs          \* the concurrent requests on the yields workbook

yvars == <<drive, pre, asd, sorted_dates, resp, fetch_kind>>
tvars == <<files, source, fetch_func, now, prefiles, result, prev, summary,
          sheets, presheets>>
avars == <<book, audit>>
vars == <<drive, pre, asd, sorted_dates, resp, fetch_kind,
          files, source, fetch_func, now, prefiles, result, prev, summary,
          book, audit, sheets, presheets, reqs>>

NoResp ==
  [op |-> "none", status |-> 0, rows |-> 0, error |-> "", failed |-> {},
   interrupted |-> {}]

\* ------------------------------------------------- steps of the handlers
\* The value of series frame df on date d (matches.iloc[0]['value']).
ValueOn(df, d) == (CHOOSE o \in df : o.date = d).value

\* The body of the write loop for one date: the date goes to column A, and a
\* series column is written only when the series was fetched and has the date.
WriteRow(rows, row_num, date, a) ==
  LET p == Pad(rows, row_num)
      old == p[row_num]
      hit(c) == {s \in DOMAIN a : all_series[s] = c /\ date \in DatesOf(a[s])}
  IN [p EXCEPT ![row_num] =
        [c \in Cols |->
           IF c = DateCol THEN date
           ELSE IF hit(c) = {} THEN old[c]
           ELSE ValueOn(a[CHOOSE s \in hit(c) : TRUE], date)]]

\* for i, date in enumerate(sorted_dates): row_num = 4 + i; ...
RECURSIVE WriteFrom(_, _, _, _)
WriteFrom(rows, dates, a, i) ==
  IF i > Len(dates) THEN rows
  ELSE WriteFrom(WriteRow(rows, StartRow + (i - 1), dates[i], a), dates, a, i + 1)

\* A plausible slip: the overwrite inserts its rows first, as the v2 handler does.
OverwriteRows_inserting(rows, dates, a) ==
  WriteFrom(InsertRows(rows, StartRow, Len(dates)), dates, a, 1)

\* The write loop of backfill_yields_correct and backfill_yields_final.
OverwriteRows(rows, dates, a) == WriteFrom(rows, dates, a, 1)

\* A plausible slip: the rows are filled without first being inserted.
InsertAndFill_noinsert(rows, dates, a) == WriteFrom(rows, dates, a, 1)

\* ws.insert_rows(4, len(sorted_dates)) and the fill loop of backfill_yields_v2.
InsertAndFill(rows, dates, a) ==
  WriteFrom(InsertRows(rows, StartRow, Len(dates)), dates, a, 1)

\* The intersection loop over main_series; main_dates stays None when no main
\* series is in all_series_data.
RECURSIVE MainDatesFrom(_, _, _)
MainDatesFrom(a, i, acc) ==
  IF i > Len(main_series) THEN acc
  ELSE LET s == main_series[i] IN
       IF s \in DOMAIN a
       THEN MainDatesFrom(a, i + 1,
              IF acc.none THEN [none |-> FALSE, dates |-> DatesOf(a[s])]
              ELSE [none |-> FALSE, dates |-> acc.dates \cap DatesOf(a[s])])
       ELSE MainDatesFrom(a, i + 1, acc)

MainDates(a) == MainDatesFrom(a, 1, [none |-> TRUE, dates |-> {}])

\* A plausible slip: only the dates that every fetched series has are kept.
AllDates_common(a) ==
  {d \in UNION {DatesOf(a[s]) : s \in DOMAIN a} : \A s \in DOMAIN a : d \in DatesOf(a[s])}

\* all_dates: the union of the dates of every fetched series.
AllDates(a) == UNION {DatesOf(a[s]) : s \in DOMAIN a}

\* The date filter of backfill_yields_v2 on one fetched frame.
\* A plausible slip: the lower end of the range is not applied.
FilterRange_nolower(df, start, end) == {o \in df : o.date <= end}

\* df[df['date'] >= start_date_dt] and df[df['date'] <= end_date_dt]
FilterRange(df, start, end) == {o \in df : o.date >= start /\ o.date <= end}

\* A plausible slip: one raising fetch aborts the fetch loop, nothing is kept.
AllSeriesDataV2_aborting(f, start, end) ==
  IF \E x \in DOMAIN f : f[x].kind = "raise" THEN <<>>
  ELSE [s \in {x \in DOMAIN f : SeriesFetched(f[x])} |->
          DropNa(FilterRange({[date |-> o.date, value |-> ToNumeric(o.value)]
                                : o \in f[s].observations}, start, end))]

\* all_series_data of backfill_yields_v2: each series in its own try block.
AllSeriesDataV2(f, start, end) ==
  [s \in {x \in DOMAIN f : SeriesFetched(f[x])} |->
     DropNa(FilterRange({[date |-> o.date, value |-> ToNumeric(o.value)]
                           : o \in f[s].observations}, start, end))]

\* A sheet of the workbook.
NewSheet == [rows |-> <<>>, charts |-> <<>>]
WithSheet(wb, name, sh) ==
  [n \in DOMAIN wb \cup {name} |-> IF n = name THEN sh ELSE wb[n]]

\* The chart loop of backfill_yields_final: each chart sheet is created or its
\* charts are cleared, then gets one chart over rows 4..4+n-1 of the Data sheet.
RECURSIVE ChartsFrom(_, _, _)
ChartsFrom(wb, n, i) ==
  IF i > Len(chart_configs) THEN wb
  ELSE LET cfg == chart_configs[i]
           base == IF cfg.sheet_name \in DOMAIN wb THEN wb[cfg.sheet_name] ELSE NewSheet
           chart == [col |-> cfg.data_col, min_row |-> StartRow,
                     max_row |-> StartRow + n - 1]
       IN ChartsFrom(WithSheet(wb, cfg.sheet_name,
                        [rows |-> base.rows, charts |-> <<chart>>]), n, i + 1)

\* The yield curve sheet: labels in row 1, the values of Data row 4 in row 2.
RECURSIVE CurveCells(_, _, _)
CurveCells(rows, data, i) ==
  IF i > Len(curve_columns) THEN rows
  ELSE CurveCells(
         SetCell(SetCell(rows, 1, i, curve_columns[i] + 100),
                 2, i, GetCell(data, StartRow, curve_columns[i])),
         data, i + 1)

YieldCurve(wb) ==
  LET base == IF "Yield Curve" \in DOMAIN wb THEN wb["Yield Curve"] ELSE NewSheet
      chart == [col |-> DateCol, min_row |-> 2, max_row |-> 2]
  IN WithSheet(wb, "Yield Curve",
       [rows |-> CurveCells(base.rows, wb["Data"].rows, 1), charts |-> <<chart>>])

WithData(wb, rows) ==
  WithSheet(wb, "Data", [rows |-> rows, charts |-> wb["Data"].charts])

Respond(op, status, rows, error, a) ==
  [op |-> op, status |-> status, rows |-> rows, error |-> error,
   failed |-> AllSeriesIds \ DOMAIN a, interrupted |-> {}]

\* ------------------------------------------------------- initial workbooks
\* The Data sheet: three header rows, then L old rows, newest first.
DataSheet(L) ==
  [rows |-> <<HeaderRow, HeaderRow, HeaderRow>> \o [k \in 1..L |-> OldRow(L - k + 1)],
   charts |-> <<>>]
\* A per-series sheet of the endpoint: a header and one old row.
SeriesSheet == [rows |-> <<HeaderRow, OldRow(1)>>, charts |-> <<>>]

\* A 'Data' sheet last updated long ago: its L rows end PastShift days before
\* the first date the source returns in this model.
PastShift == 5 * MaxDate
PastDataSheet(L) ==
  [rows |-> <<HeaderRow, HeaderRow, HeaderRow>>
              \o [k \in 1..L |-> OldRow(L - k + 1 - PastShift)],
   charts |-> <<>>]
InitDataSheets ==
  {DataSheet(L) : L \in 0..MaxOldRows} \cup {PastDataSheet(L) : L \in 1..MaxOldRows}
\* The 'Yield Curve' sheet left by an earlier backfill_yields_final: the
\* labels in row 1, the curve values of that run in row 2, and its chart.
OldCurveSheet ==
  [rows |-> <<[c \in Cols |-> IF c <= Len(curve_columns) THEN curve_columns[c] + 100
                                ELSE Empty],
              [c \in Cols |-> IF c <= Len(curve_columns) THEN c + 300 ELSE Empty]>>,
   charts |-> <<[col |-> DateCol, min_row |-> 2, max_row |-> 2]>>]
\* The workbooks before any run of backfill_yields_final, and those after one.
InitWorkbooks ==
  { [n \in names |-> IF n = "Data" THEN data ELSE SeriesSheet]
      : names \in {{"2yr"} \cup x : x \in SUBSET {"Data", "10yr"}},
        data \in InitDataSheets }
  \cup
  { [n \in {"2yr", "10yr", "Data", "Yield Curve"} |->
       IF n = "Data" THEN data
       ELSE IF n = "Yield Curve" THEN OldCurveSheet ELSE SeriesSheet]
      : data \in InitDataSheets }

NoData == <<>>

\* A handler that ends before it fetched anything.
EarlyExit(op, status, error) ==
  /\ drive' = drive
  /\ asd' = NoData
  /\ sorted_dates' = <<>>
  /\ fetch_kind' = NoData
  /\ resp' = [op |-> op, status |-> status, rows |-> 0, error |-> error, failed |-> {},
              interrupted |-> {}]

\* wb.save and google_drive.upload_file: the upload replaces the stored file,
\* or raises and leaves it as it was (the handler then answers 500).
SaveAndUpload(op, wb, rows, a) ==
  \/ /\ drive' = wb
     /\ resp' = Respond(op, 200, rows, "", a)
  \/ /\ drive' = drive
     /\ resp' = Respond(op, 500, 0, "upload", a)

\* ---------------------------------------------------------------- handlers
\* POST /macro/backfill-yields-final
backfill_yields_final ==
  /\ resp.op = "none"
  /\ UNCHANGED <<tvars, avars, reqs>>
  /\ pre' = drive
  /\ \/ EarlyExit("final", 500, "download")
     \/ /\ "Data" \notin DOMAIN drive
        /\ EarlyExit("final", 404, "Data sheet not found")
     \/ /\ "Data" \in DOMAIN drive
        /\ \E f \in [AllSeriesIds -> FetchOutcomes] :
             LET a == AllSeriesData(f)
                 md == MainDates(a)
             IN /\ asd' = a
                /\ fetch_kind' = [s \in DOMAIN f |-> KindOf(f[s])]
                /\ IF md.none \/ md.dates = {}
                   THEN /\ sorted_dates' = <<>>
                        /\ drive' = drive
                        /\ resp' = Respond("final", 500, 0,
                                     "No complete data for main series", a)
                   ELSE LET sd == SortDesc(md.dates)
                            wb1 == WithData(drive, OverwriteRows(drive["Data"].rows, sd, a))
                            wb2 == YieldCurve(ChartsFrom(wb1, Len(sd), 1))
                        IN /\ sorted_dates' = sd
                           /\ SaveAndUpload("final", wb2, Len(sd), a)

\* POST /macro/backfill-yields-correct
backfill_yields_correct ==
  /\ resp.op = "none"
  /\ UNCHANGED <<tvars, avars, reqs>>
  /\ pre' = drive
  /\ \/ EarlyExit("correct", 500, "download")
     \/ /\ "Data" \notin DOMAIN drive
        /\ EarlyExit("correct", 404, "Data sheet not found")
     \/ /\ "Data" \in DOMAIN drive
        /\ \E f \in [AllSeriesIds -> FetchOutcomes] :
             LET a == AllSeriesData(f)
                 sd == SortDesc(AllDates(a))
             IN /\ asd' = a
                /\ fetch_kind' = [s \in DOMAIN f |-> KindOf(f[s])]
                /\ sorted_dates' = sd
                /\ IF sd = <<>>
                   THEN \* sorted_dates[-1] in the log line raises IndexError
                        /\ drive' = drive
                        /\ resp' = Respond("correct", 500, 0, "list index out of range", a)
                   ELSE SaveAndUpload("correct",
                          WithData(drive, OverwriteRows(drive["Data"].rows, sd, a)),
                          Len(sd), a)

\* POST /macro/backfill-yields-v2
backfill_yields_v2 ==
  /\ resp.op = "none"
  /\ UNCHANGED <<tvars, avars, reqs>>
  /\ pre' = drive
  /\ \/ EarlyExit("v2", 500, "download")
     \/ /\ "Data" \notin DOMAIN drive
        /\ EarlyExit("v2", 404, "Data sheet not found")
     \/ /\ "Data" \in DOMAIN drive
        /\ GetCell(drive["Data"].rows, StartRow, DateCol) = Empty
        /\ EarlyExit("v2", 400, "No date found in A4")
     \/ /\ "Data" \in DOMAIN drive
        /\ GetCell(drive["Data"].rows, StartRow, DateCol) # Empty
        /\ \E f \in [AllSeriesIds -> FetchOutcomes] :
             LET current_last_date == GetCell(drive["Data"].rows, StartRow, DateCol)
                 a == AllSeriesDataV2(f, current_last_date + 1, MaxDate)
                 sd == SortDesc(AllDates(a))
             IN /\ asd' = a
                /\ fetch_kind' = [s \in DOMAIN f |-> KindOf(f[s])]
                /\ sorted_dates' = sd
                /\ IF sd = <<>>
                   THEN /\ drive' = drive
                        /\ resp' = Respond("v2", 200, 0, "", a)
                   ELSE SaveAndUpload("v2",
                          WithData(drive, InsertAndFill(drive["Data"].rows, sd, a)),
                          Len(sd), a)

\* df.iterrows() of a frame fetched with sort_order='asc'
RECURSIVE SortAsc(_)
SortAsc(S) ==
  IF S = {} THEN <<>>
  ELSE LET m == CHOOSE x \in S : \A y \in S : x <= y
       IN <<m>> \o SortAsc(S \ {m})

\* start_date = '2021-01-04' of backfill_yields_endpoint: the first day of the model.
BackfillStart == 1

\* The append loop of backfill_yields_endpoint on one sheet: each observation
\* goes below the last row, with one ws.cell call for the date in column A and
\* one for the value in column B. The loop ends after `calls' calls when the
\* next one raises: the cells written so far stay, a row whose second call
\* raised keeps its date without a value.
RECURSIVE AppendFrom(_, _, _, _, _)
AppendFrom(rows, df, dates, calls, i) ==
  IF i > Len(dates) \/ calls < 2 * i - 1 THEN rows
  ELSE LET last_row == MaxRowOf(rows) + 1
           dated == SetCell(rows, last_row, DateCol, dates[i])
       IN IF calls < 2 * i THEN dated
          ELSE AppendFrom(SetCell(dated, last_row, ValueCol, ValueOn(df, dates[i])),
                          df, dates, calls, i + 1)

\* The frame of one sheet of the endpoint after its filters.
SheetFrame(f, name) ==
  DropNa(FilterRange({[date |-> o.date, value |-> ToNumeric(o.value)]
                        : o \in f[yield_series[name]].observations},
                     BackfillStart, MaxDate))

\* Whether the append loop of the sheet is entered.
SheetUpdated(wb, f, name) ==
  /\ name \in DOMAIN wb
  /\ SeriesFetched(f[yield_series[name]])
  /\ SheetFrame(f, name) # {}

\* The ws.cell calls the append loop of a full frame makes: two per row.
CellCalls == 2 * MaxDate
\* The ws.cell calls each append loop makes before the next one raises: a
\* number below the calls of the frame interrupts the loop, CellCalls calls are
\* enough for every frame. Any of the loops of a request can be interrupted.
AppendStops(ids) == [ids -> 0..CellCalls]
NoStops == [s \in {yield_series[n] : n \in DOMAIN yield_series} |-> CellCalls]

\* Whether the append loop of the sheet raises part-way: the cells written so
\* far stay in the workbook, and the except clause of the sheet takes over.
SheetInterrupted(wb, f, stops, name) ==
  /\ SheetUpdated(wb, f, name)
  /\ 2 * Cardinality(SheetFrame(f, name)) > stops[yield_series[name]]

\* Whether the try block of one sheet of the endpoint ends in its except
\* clause: the fetch raises, the answer holds no observation (df['date'] is
\* then a KeyError), or the append loop raises.
SheetRaised(wb, f, stops, name) ==
  /\ name \in DOMAIN wb
  /\ \/ f[yield_series[name]].kind = "raise"
     \/ f[yield_series[name]].kind = "ok" /\ f[yield_series[name]].observations = {}
     \/ SheetInterrupted(wb, f, stops, name)

\* The loop over yield_series: a sheet that is missing, whose fetch fails or
\* returns nothing is skipped, the others get their observations appended, up
\* to the ws.cell call at which the append loop raises.
RECURSIVE EndpointFrom(_, _, _, _)
EndpointFrom(wb, f, stops, i) ==
  IF i > Len(yield_order) THEN wb
  ELSE LET name == yield_order[i] IN
       IF SheetUpdated(wb, f, name)
       THEN EndpointFrom(
              WithSheet(wb, name,
                [rows |-> AppendFrom(wb[name].rows, SheetFrame(f, name),
                                     SortAsc(DatesOf(SheetFrame(f, name))),
                                     stops[yield_series[name]], 1),
                 charts |-> wb[name].charts]),
              f, stops, i + 1)
       ELSE EndpointFrom(wb, f, stops, i + 1)

EndpointSeries == {yield_series[n] : n \in DOMAIN yield_series}
\* The series get_series is called for: a sheet that is not in the workbook
\* is skipped before the call.
CalledSeries(wb) == {yield_series[n] : n \in DOMAIN yield_series \cap DOMAIN wb}

\* POST /macro/backfill-yields
backfill_yields_endpoint ==
  /\ resp.op = "none"
  /\ UNCHANGED <<tvars, avars, reqs>>
  /\ pre' = drive
  /\ \/ EarlyExit("endpoint", 500, "download")
     \/ \E f \in [CalledSeries(drive) -> FetchOutcomes] :
        \E stops \in AppendStops(CalledSeries(drive)) :
          LET cut == {n \in DOMAIN yield_series : SheetInterrupted(drive, f, stops, n)}
              updated == {n \in DOMAIN yield_series : SheetUpdated(drive, f, n)} \ cut
              raised == {yield_series[n] : n \in {x \in DOMAIN yield_series :
                                                     SheetRaised(drive, f, stops, x)}}
              total == Cardinality(UNION {{<<n, d>> : d \in DatesOf(SheetFrame(f, n))}
                                            : n \in updated})
          IN /\ asd' = [s \in {yield_series[n] : n \in updated} |->
                          SheetFrame(f, CHOOSE n \in updated : yield_series[n] = s)]
             /\ sorted_dates' = <<>>
             /\ fetch_kind' = [s \in DOMAIN f |-> KindOf(f[s])]
             /\ \/ /\ drive' = EndpointFrom(drive, f, stops, 1)
                   /\ resp' = [op |-> "endpoint", status |-> 200, rows |-> total,
                               error |-> "", failed |-> raised,
                               interrupted |-> {yield_series[n] : n \in cut}]
                \/ /\ drive' = drive
                   /\ resp' = [op |-> "endpoint", status |-> 500, rows |-> 0,
                               error |-> "upload", failed |-> raised,
                               interrupted |-> {yield_series[n] : n \in cut}]

\* ws[cell] = value
AssignCell(rows, r, c, v) ==
  LET p == Pad(rows, r) IN [p EXCEPT ![r] = [@ EXCEPT ![c] = v]]

\* The requests POST /templates/test-update can make on the workbook: a sheet
\* (the default 'Sheet1' is not in the workbook), a cell and a value, which
\* the route replaces by a text when it is empty.
CellValues == {9}
CellUpdates ==
  [sheet_name : {"Data", "Sheet1"}, row : {1, StartRow}, col : {DateCol, ValueCol},
   value : CellValues]
CellUpdated(wb, u) ==
  WithSheet(wb, u.sheet_name,
    [rows |-> AssignCell(wb[u.sheet_name].rows, u.row, u.col, u.value),
     charts |-> wb[u.sheet_name].charts])

\* POST /templates/test-update: excel_handler.update_cell_in_drive on the
\* workbook; a missing sheet raises ValueError, which the route answers 500.
update_cell_in_drive ==
  /\ resp.op = "none"
  /\ UNCHANGED <<tvars, avars, reqs>>
  /\ pre' = drive
  /\ \E u \in CellUpdates :
       \/ EarlyExit("cell", 500, "download")
       \/ /\ u.sheet_name \notin DOMAIN drive
          /\ EarlyExit("cell", 500, "Sheet not found")
       \/ /\ u.sheet_name \in DOMAIN drive
          /\ asd' = NoData
          /\ sorted_dates' = <<>>
          /\ fetch_kind' = NoData
          /\ \/ /\ drive' = CellUpdated(drive, u)
                /\ resp' = [op |-> "cell", status |-> 200, rows |-> 0, error |-> "",
                            failed |-> {}, interrupted |-> {}]
             \/ /\ drive' = drive
                /\ resp' = [op |-> "cell", status |-> 500, rows |-> 0,
                            error |-> "upload", failed |-> {}, interrupted |-> {}]

\* ---------------------------------------------- DataFrame based updates
\* The templates of TEMPLATE_MAPPING (two of the four of the source): the first
\* takes its file id from KEY_FILES, the second looks it up with find_file_by_name.
Templates == <<"ISM_Manufacturing", "ISM_Services">>
TemplateSet == {Templates[i] : i \in 1..Len(Templates)}
LooksUpFile(t) == t = "ISM_Services"

\* Most rows of a stored sheet that an update starts from.
MaxLen == 2
Values == {1, 2}
RowSet == [Date : Dates, Value : Values]
\* The DataFrames of at most n rows, in any order and with repeated dates.
RECURSIVE FramesUpTo(_)
FramesUpTo(n) ==
  IF n = 0 THEN {<<>>}
  ELSE FramesUpTo(n - 1) \cup
       {Append(f, r) : f \in {g \in FramesUpTo(n - 1) : Len(g) = n - 1}, r \in RowSet}
\* The value the source reports (a stored row holds any value of Values).
SourceValues == {2}
\* A sheet or a source with one row per date of S, in ascending date order.
RECURSIVE AscFrames(_)
AscFrames(S) ==
  IF S = {} THEN {<<>>}
  ELSE LET m == CHOOSE x \in S : \A y \in S : y <= x
       IN {Append(f, [Date |-> m, Value |-> v]) : f \in AscFrames(S \ {m}),
                                                   v \in SourceValues}
AllAscFrames == UNION {AscFrames(S) : S \in SUBSET Dates}

\* pd.NaT, the max of an empty date column; NaT + timedelta is NaT.
NaT == -2
\* The freshness window of backfill_template, in days.
FreshDays == 7
\* The default start_date of backfill_template ('2021-01-01'): the first day.
HistoricalFloor == 1

\* pd.to_datetime(df['Date']).max()
MaxDateOf(df) ==
  IF Len(df) = 0 THEN NaT
  ELSE CHOOSE d \in {df[i].Date : i \in 1..Len(df)} :
         \A i \in 1..Len(df) : df[i].Date <= d

AddDays(d, k) == IF d = NaT THEN NaT ELSE d + k

\* A fetch function that returns the observations of the source in the range
\* (a comparison with NaT is false).
FetchRanged(src, start, end) ==
  LET InRange(r) == start # NaT /\ r.Date >= start /\ r.Date <= end
  IN SelectSeq(src, InRange)

\* A fetch function on FREDClient.get_series, which takes no date range: it
\* returns the observations the source holds, whatever the range asked.
FetchLatest(src, start, end) == src

FetchFunction(kind, src, start, end) ==
  IF kind = "ranged" THEN FetchRanged(src, start, end)
  ELSE FetchLatest(src, start, end)

\* The rows of df at the indices of idx, in order.
RECURSIVE Pick(_, _, _)
Pick(df, idx, i) ==
  IF i > Len(df) THEN <<>>
  ELSE (IF i \in idx THEN <<df[i]>> ELSE <<>>) \o Pick(df, idx, i + 1)

\* df.drop_duplicates(subset=['Date'], keep='last')
DropDuplicatesKeepLast(df) ==
  Pick(df, {i \in 1..Len(df) : \A j \in (i + 1)..Len(df) : df[j].Date # df[i].Date}, 1)

\* df.sort_values('Date').reset_index(drop=True)
RECURSIVE SortValues(_)
SortValues(df) ==
  IF Len(df) = 0 THEN <<>>
  ELSE LET k == CHOOSE i \in 1..Len(df) :
                  /\ \A j \in 1..Len(df) : df[i].Date <= df[j].Date
                  /\ \A j \in 1..(i - 1) : df[j].Date # df[i].Date
       IN <<df[k]>> \o SortValues(Pick(df, (1..Len(df)) \ {k}, 1))

\* A plausible slip: the appended frame is sorted but not deduplicated.
MergeAppend_nodedup(df, new_data) == SortValues(df \o new_data)

\* A plausible slip: the fetched batch is written in place of the combined frame.
MergeAppend_batchonly(df, new_data) == SortValues(DropDuplicatesKeepLast(new_data))

\* pd.concat, drop_duplicates and sort_values of both update functions.
MergeAppend(df, new_data) == SortValues(DropDuplicatesKeepLast(df \o new_data))

\* start_date of the fetch of update_template_incremental.
IncrementalStart(last_date) == AddDays(last_date, 1)

\* date >= datetime.now() - timedelta(days): date is the midnight of a day of
\* the sheet, and now is a time of the day current_date, so that a date on the
\* day `day' = current_date - days is not before the bound only when now is
\* exactly midnight.
NotBefore(date, day, midnight) ==
  IF midnight THEN date >= day ELSE date > day

Outcome(status, rows_added, fetched, wrote, df, new_data, start) ==
  [status |-> status, rows_added |-> rows_added, fetched |-> fetched,
   wrote |-> wrote, df |-> df, new_data |-> new_data, start |-> start]

\* backfill_template on the stored frame df; io names the step that raises when
\* it is reached ("read", "fetch", "write") or "ok".
RunBackfill(df, kind, src, current_date, midnight, io) ==
  LET last_date == IF Len(df) > 0 THEN MaxDateOf(df) ELSE HistoricalFloor
      start == AddDays(last_date, 1)
      new_data == FetchFunction(kind, src, start, current_date)
  IN IF io = "read" THEN Outcome("raised", 0, FALSE, FALSE, df, <<>>, NaT)
     ELSE IF NotBefore(last_date, current_date - FreshDays, midnight)
       THEN Outcome("returned", 0, FALSE, FALSE, df, <<>>, NaT)
     ELSE IF io = "fetch" THEN Outcome("raised", 0, TRUE, FALSE, df, <<>>, start)
     ELSE IF Len(new_data) = 0
       THEN Outcome("returned", 0, TRUE, FALSE, df, new_data, start)
     ELSE IF io = "write" THEN Outcome("raised", 0, TRUE, FALSE, df, new_data, start)
     ELSE Outcome("returned", Len(new_data), TRUE, TRUE, MergeAppend(df, new_data),
                  new_data, start)

\* A plausible slip: the test for an empty fetch is missing, so that a run
\* whose fetch returned nothing still merges and writes.
RunIncremental_writesempty(df, kind, src, current_date, io) ==
  LET start == IncrementalStart(MaxDateOf(df))
      new_data == FetchFunction(kind, src, start, current_date)
  IN IF io = "read" THEN Outcome("raised", 0, FALSE, FALSE, df, <<>>, NaT)
     ELSE IF io = "fetch" THEN Outcome("raised", 0, TRUE, FALSE, df, <<>>, start)
     ELSE IF io = "write" THEN Outcome("raised", 0, TRUE, FALSE, df, new_data, start)
     ELSE Outcome("returned", Len(new_data), TRUE, TRUE, MergeAppend(df, new_data),
                  new_data, start)

\* update_template_incremental on the stored frame df.
RunIncremental(df, kind, src, current_date, io) ==
  LET last_date == MaxDateOf(df)
      start == IncrementalStart(last_date)
      new_data == FetchFunction(kind, src, start, current_date)
  IN IF io = "read" THEN Outcome("raised", 0, FALSE, FALSE, df, <<>>, NaT)
     ELSE IF io = "fetch" THEN Outcome("raised", 0, TRUE, FALSE, df, <<>>, start)
     ELSE IF Len(new_data) = 0
       THEN Outcome("returned", 0, TRUE, FALSE, df, new_data, start)
     ELSE IF io = "write" THEN Outcome("raised", 0, TRUE, FALSE, df, new_data, start)
     ELSE Outcome("returned", Len(new_data), TRUE, TRUE, MergeAppend(df, new_data),
                  new_data, start)

RunTemplate(mode, df, kind, src, current_date, midnight, io) ==
  IF mode = "backfill" THEN RunBackfill(df, kind, src, current_date, midnight, io)
  ELSE RunIncremental(df, kind, src, current_date, io)

IoFaults == {"ok", "read", "fetch", "write"}
\* The operations that are template updates.
UpdateOps == {"backfill", "incremental"}
NoResult ==
  [op |-> "none", template |-> "", status |-> "", rows_added |-> 0,
   rows_removed |-> 0, fetched |-> FALSE, wrote |-> FALSE, new_data |-> <<>>,
   start |-> NaT]
NoPrev == [op |-> "none", template |-> "", status |-> "", wrote |-> FALSE]
NoSummary ==
  [mode |-> "none", raised |-> FALSE, total_templates |-> 0, updated |-> 0,
   failed |-> 0, details |-> <<>>]

\* df.to_excel(tmp_path, sheet_name='Data', index=False) and the upload: the
\* stored file becomes a workbook with the one sheet 'Data'.
WrittenSheets == <<"Data">>

\* One call of backfill_template or update_template_incremental on template t,
\* on the day now, at midnight or later in the day.
TemplateCall(mode, t) ==
  \E o \in {RunTemplate(mode, files[t], fetch_func[t], source[t], now, midnight, io) :
              midnight \in BOOLEAN, io \in IoFaults} :
      /\ files' = [files EXCEPT ![t] = o.df]
      /\ prefiles' = files
      /\ sheets' = [sheets EXCEPT ![t] = IF o.wrote THEN WrittenSheets ELSE @]
      /\ presheets' = sheets
      /\ prev' = [op |-> result.op, template |-> result.template,
                  status |-> result.status, wrote |-> result.wrote]
      /\ result' = [op |-> mode, template |-> t, status |-> o.status,
                    rows_added |-> o.rows_added, rows_removed |-> 0,
                    fetched |-> o.fetched, wrote |-> o.wrote,
                    new_data |-> o.new_data, start |-> o.start]
      /\ UNCHANGED <<source, fetch_func, now, summary>>
      /\ UNCHANGED <<yvars, avars, reqs>>

\* The calls are made on the template files that exist (DOMAIN files).
backfill_template == \E t \in DOMAIN files : TemplateCall("backfill", t)

update_template_incremental == \E t \in DOMAIN files : TemplateCall("incremental", t)

\* retention_years * 365 days
DaysPerYear == 365
\* retention_years of a call: none, or the default.
RetentionYears == {0, 5}

\* df[pd.to_datetime(df['Date']) >= cutoff_date]
KeptRows(df, current_date, midnight, retention_years) ==
  LET Kept(r) == NotBefore(r.Date, current_date - retention_years * DaysPerYear, midnight)
  IN SelectSeq(df, Kept)

\* cleanup_old_data on the stored frame df: the frame is written only when
\* rows were removed.
RunCleanup(df, current_date, midnight, retention_years, keep_all_for_monthly, io) ==
  LET df_cleaned == KeptRows(df, current_date, midnight, retention_years)
      rows_removed == Len(df) - Len(df_cleaned)
  IN IF io = "read" THEN [status |-> "raised", rows_removed |-> 0, wrote |-> FALSE, df |-> df]
     ELSE IF keep_all_for_monthly
       THEN [status |-> "returned", rows_removed |-> 0, wrote |-> FALSE, df |-> df]
     ELSE IF rows_removed = 0
       THEN [status |-> "returned", rows_removed |-> 0, wrote |-> FALSE, df |-> df]
     ELSE IF io = "write"
       THEN [status |-> "raised", rows_removed |-> 0, wrote |-> FALSE, df |-> df]
     ELSE [status |-> "returned", rows_removed |-> rows_removed, wrote |-> TRUE,
           df |-> df_cleaned]

\* One call of cleanup_old_data on template t, on the day now.
cleanup_old_data ==
  \E t \in DOMAIN files :
  \E o \in {RunCleanup(files[t], now, midnight, retention_years, keep_all_for_monthly, io) :
              midnight \in BOOLEAN, retention_years \in RetentionYears,
              keep_all_for_monthly \in BOOLEAN, io \in {"ok", "read", "write"}} :
      /\ files' = [files EXCEPT ![t] = o.df]
      /\ prefiles' = files
      /\ sheets' = [sheets EXCEPT ![t] = IF o.wrote THEN WrittenSheets ELSE @]
      /\ presheets' = sheets
      /\ prev' = [op |-> result.op, template |-> result.template,
                  status |-> result.status, wrote |-> result.wrote]
      /\ result' = [op |-> "cleanup", template |-> t, status |-> o.status,
                    rows_added |-> 0, rows_removed |-> o.rows_removed,
                    fetched |-> FALSE, wrote |-> o.wrote, new_data |-> <<>>,
                    start |-> NaT]
      /\ UNCHANGED <<source, fetch_func, now, summary>>
      /\ UNCHANGED <<yvars, avars, reqs>>

\* The sheet names a caller of append_rows_to_drive passes: the data sheet,
\* which is the first sheet of the stored file, or a sheet the file lacks.
AppendSheets == {"Data", "Sheet1"}
\* The frames a caller appends: no row or one row (longer frames are appended
\* as this one is, row after row).
AppendedFrames == {f \in AllAscFrames : Len(f) <= 1}

\* append_rows_to_drive: read_excel_from_drive of the named sheet (a missing
\* sheet raises), pd.concat and write_excel_to_drive, without any
\* drop_duplicates or sort_values; the written file has the one sheet sheet_name.
RunAppend(df, names, sheet_name, new_data, io) ==
  IF io = "read" \/ \A i \in 1..Len(names) : names[i] # sheet_name
  THEN [status |-> "raised", wrote |-> FALSE, df |-> df, names |-> names]
  ELSE IF io = "write"
  THEN [status |-> "raised", wrote |-> FALSE, df |-> df, names |-> names]
  ELSE [status |-> "returned", wrote |-> TRUE, df |-> df \o new_data,
        names |-> <<sheet_name>>]

\* One call of append_rows_to_drive on template t; the appended frames are
\* kept within MaxLen rows.
append_rows_to_drive ==
  \E t \in DOMAIN files :
  \E o \in {RunAppend(files[t], sheets[t], sheet_name, new_data, io) :
              sheet_name \in AppendSheets,
              new_data \in {f \in AppendedFrames : Len(files[t]) + Len(f) <= MaxLen},
              io \in {"ok", "read", "write"}} :
      /\ files' = [files EXCEPT ![t] = o.df]
      /\ prefiles' = files
      /\ sheets' = [sheets EXCEPT ![t] = o.names]
      /\ presheets' = sheets
      /\ prev' = [op |-> result.op, template |-> result.template,
                  status |-> result.status, wrote |-> result.wrote]
      /\ result' = [op |-> "append", template |-> t, status |-> o.status,
                    rows_added |-> 0, rows_removed |-> 0, fetched |-> FALSE,
                    wrote |-> o.wrote, new_data |-> <<>>, start |-> NaT]
      /\ UNCHANGED <<source, fetch_func, now, summary>>
      /\ UNCHANGED <<yvars, avars, reqs>>

\* The loop of update_all_macro_templates from template i on: fs are the files
\* so far, acc the results so far; a template whose file was not found reads
\* the file id 'None', which raises in the download.
RECURSIVE RunLoop(_, _, _, _, _, _, _, _)
RunLoop(mode, fs, w, acc, lookups, ios, midnights, i) ==
  IF i > Len(Templates) THEN [files |-> fs, results |-> acc, wrote |-> w]
  ELSE LET t == Templates[i]
           io == IF LooksUpFile(t) /\ lookups[t] = "not_found" THEN "read" ELSE ios[t]
           o == RunTemplate(mode, fs[t], fetch_func[t], source[t], now, midnights[t], io)
           entry == [template |-> t,
                     status |-> IF o.status = "returned" THEN "success" ELSE "failed",
                     rows_added |-> o.rows_added]
       IN RunLoop(mode, [fs EXCEPT ![t] = o.df],
            IF o.wrote THEN w \cup {t} ELSE w,
            [acc EXCEPT
               !.updated = IF o.status = "returned" /\ o.rows_added > 0 THEN @ + 1 ELSE @,
               !.failed = IF o.status = "raised" THEN @ + 1 ELSE @,
               !.details = Append(@, entry)],
            lookups, ios, midnights, i + 1)

LookupOutcomes == {"found", "not_found", "raise"}
\* Each call of the loop reads datetime.now() itself: at most one of them at
\* exactly midnight.
MidnightCalls ==
  {m \in [TemplateSet -> BOOLEAN] : Cardinality({t \in TemplateSet : m[t]}) <= 1}

\* update_all_macro_templates(mode): TEMPLATE_MAPPING is built first, outside
\* any try block, so a find_file_by_name that raises ends the whole call.
update_all_macro_templates ==
  \E mode \in {"backfill", "incremental"} :
  \E lookups \in [{t \in TemplateSet : LooksUpFile(t)} -> LookupOutcomes] :
  \E ios \in [TemplateSet -> IoFaults] :
  \E midnights \in MidnightCalls :
    /\ DOMAIN files = TemplateSet
    /\ prefiles' = files
    /\ presheets' = sheets
    /\ IF \E t \in DOMAIN lookups : lookups[t] = "raise"
       THEN /\ files' = files
            /\ sheets' = sheets
            /\ summary' = [mode |-> mode, raised |-> TRUE, total_templates |-> 0,
                           updated |-> 0, failed |-> 0, details |-> <<>>]
       ELSE LET run == RunLoop(mode, files, {},
                         [mode |-> mode, raised |-> FALSE,
                          total_templates |-> Len(Templates), updated |-> 0,
                          failed |-> 0, details |-> <<>>],
                         lookups, ios, midnights, 1)
            IN /\ files' = run.files
               /\ sheets' = [t \in DOMAIN sheets |->
                               IF t \in run.wrote THEN WrittenSheets ELSE sheets[t]]
               /\ summary' = run.results
    /\ UNCHANGED <<source, fetch_func, now, result, prev>>
    /\ UNCHANGED <<yvars, avars, reqs>>

\* ------------------------------------------------- the template auditor
\* A sheet is [name, cols]; a column is [header, cells]; a cell holds a day
\* number (a date) or Junk (text that pd.to_datetime cannot parse).
Junk == -3
\* A sheet with fewer rows, or fewer valid dates, is skipped by the v2 audit.
MinRows == 5
\* Twice the 1.5 days up to which a median delta is 'daily'.
TwiceDailyMax == 3
\* The median delta up to which the frequency is 'monthly' / 'quarterly'.
MonthlyMax == 35
QuarterlyMax == 100
\* 1900-01-01 and 2030-12-31 on the day scale of the audited sheets.
FirstValidDay == 10
LastValidDay == 200

\* Header words that mark a date column, in audit_templates and in the v2 audit.
date_patterns == {"date", "period", "month", "year", "time"}
date_words == date_patterns \cup {"day"}
\* Sheet names the v2 audit leaves aside, compared in upper case.
SkippedNames == {"NOTES", "README", "INFO", "INSTRUCTIONS"}
Upper(name) ==
  CASE name = "Sheet1" -> "SHEET1" [] name = "Sheet2" -> "SHEET2"
    [] name = "Notes" -> "NOTES" [] OTHER -> name

\* pd.to_datetime(v, errors='coerce')
ParseDate(v) == IF v = Junk THEN NaT ELSE v

\* test_series.notna().sum()
ValidCount(col) ==
  Cardinality({i \in 1..Len(col.cells) : ParseDate(col.cells[i]) # NaT})
\* valid_dates > len(df) * 0.5
PassesThreshold(col) == 2 * ValidCount(col) > Len(col.cells)
\* df_valid[date_col]: the parsed dates of the rows with a valid date, in row order.
ValidDates(col) ==
  LET parsed == [i \in 1..Len(col.cells) |-> ParseDate(col.cells[i])]
      IsDate(v) == v # NaT
  IN SelectSeq(parsed, IsDate)
\* series.diff().dropna() in days
Diffs(q) == [i \in 1..(Len(q) - 1) |-> q[i + 1] - q[i]]

RECURSIVE SortInts(_)
SortInts(q) ==
  IF Len(q) = 0 THEN <<>>
  ELSE LET k == CHOOSE i \in 1..Len(q) : \A j \in 1..Len(q) : q[i] <= q[j]
       IN <<q[k]>> \o SortInts(Pick(q, (1..Len(q)) \ {k}, 1))
\* Twice series.median(): the middle value, or the mean of the two middle ones.
TwiceMedian(q) ==
  LET s == SortInts(q)
      n == Len(q)
  IN IF n % 2 = 1 THEN 2 * s[(n + 1) \div 2] ELSE s[n \div 2] + s[n \div 2 + 1]

\* The frequency estimated from the deltas.
Frequency(date_diffs) ==
  IF Len(date_diffs) = 0 THEN "unknown"
  ELSE LET m == TwiceMedian(date_diffs) IN
       IF m <= TwiceDailyMax THEN "daily"
       ELSE IF m <= 2 * MonthlyMax THEN "monthly"
       ELSE IF m <= 2 * QuarterlyMax THEN "quarterly"
       ELSE "annual"
GapPeriods(freq, gap_days) ==
  CASE freq = "daily" -> gap_days [] freq = "monthly" -> gap_days \div 30
    [] freq = "quarterly" -> gap_days \div 90 [] freq = "annual" -> gap_days \div 365
    [] OTHER -> 0

MinOfSeq(q) == CHOOSE x \in {q[i] : i \in 1..Len(q)} : \A i \in 1..Len(q) : x <= q[i]
MaxOfSeq(q) == CHOOSE x \in {q[i] : i \in 1..Len(q)} : \A i \in 1..Len(q) : x >= q[i]

NoAudit ==
  [op |-> "none", status |-> "", error |-> "", sheet_name |-> "", date_column |-> "",
   start_date |-> NaT, end_date |-> NaT, total_rows |-> 0, frequency |-> "",
   last_update_days_ago |-> 0, gap_periods |-> 0, needs_backfill |-> FALSE]
AuditError(op, error) == [NoAudit EXCEPT !.op = op, !.status = "ERROR", !.error = error]
\* The SUCCESS entry for date column c of a sheet.
AuditSuccess(op, sheet_name, col, current_date) ==
  LET dates == ValidDates(col)
      gap_days == current_date - MaxOfSeq(dates)
      freq == Frequency(Diffs(dates))
  IN [op |-> op, status |-> "SUCCESS", error |-> "", sheet_name |-> sheet_name,
      date_column |-> col.header, start_date |-> MinOfSeq(dates),
      end_date |-> MaxOfSeq(dates), total_rows |-> Len(dates), frequency |-> freq,
      last_update_days_ago |-> gap_days, gap_periods |-> GapPeriods(freq, gap_days),
      needs_backfill |-> gap_days > FreshDays]

\* str(col).lower(); the headers of the model are single words, so that a
\* word is in the header exactly when it is the lowered header.
Lower(header) ==
  CASE header = "Date" -> "date" [] header = "Period" -> "period" [] OTHER -> header
HasWord(words, header) == Lower(header) \in words
MinOfSet(S) == CHOOSE x \in S : \A y \in S : x <= y

\* audit_templates: the first column whose header has a date word, else the
\* first column; the index of the column in the sheet.
DateColV1(sheet) ==
  LET named == {i \in 1..Len(sheet.cols) : HasWord(date_patterns, sheet.cols[i].header)}
  IN IF named # {} THEN MinOfSet(named) ELSE 1
\* The v2 audit: the first column with a date word that parses for more than
\* half of the rows, else the first such column among the first three; 0 if none.
DateColV2(sheet) ==
  LET n == Len(sheet.cols)
      method1 == {i \in 1..n : /\ HasWord(date_words, sheet.cols[i].header)
                               /\ PassesThreshold(sheet.cols[i])}
      method2 == {i \in 1..(IF n < 3 THEN n ELSE 3) : PassesThreshold(sheet.cols[i])}
  IN IF method1 # {} THEN MinOfSet(method1)
     ELSE IF method2 # {} THEN MinOfSet(method2) ELSE 0

\* The entry audit_templates appends for a downloaded workbook: its first sheet only.
AuditV1(wb, current_date) ==
  LET sheet == wb[1]
      col == sheet.cols[DateColV1(sheet)]
  IN IF Len(ValidDates(col)) = 0 THEN AuditError("v1", "No valid dates found")
     ELSE AuditSuccess("v1", "", col, current_date)

\* One pass of the v2 sheet loop: the result of the sheet, or NoAudit when the
\* loop continues without one.
SheetResult(sheet, current_date) ==
  LET c == DateColV2(sheet) IN
  IF Len(sheet.cols[1].cells) < MinRows THEN NoAudit
  ELSE IF c = 0 THEN NoAudit
  ELSE LET col == sheet.cols[c]
           dates == ValidDates(col)
       IN IF Len(dates) < MinRows THEN NoAudit
          ELSE IF MinOfSeq(dates) < FirstValidDay \/ MaxOfSeq(dates) > LastValidDay
               THEN NoAudit
          ELSE AuditSuccess("v2", sheet.name, col, current_date)

\* data_sheets[:3]
DataSheets(wb) ==
  LET NotSkipped(s) == Upper(s.name) \notin SkippedNames
      data_sheets == SelectSeq(wb, NotSkipped)
      all == IF data_sheets = <<>> THEN wb ELSE data_sheets
  IN SubSeq(all, 1, IF Len(all) < 3 THEN Len(all) ELSE 3)

\* The sheet loop: a result replaces the best one only with more rows.
RECURSIVE BestResult(_, _, _)
BestResult(rest, best_result, current_date) ==
  IF rest = <<>> THEN best_result
  ELSE LET r == SheetResult(Head(rest), current_date)
           keep == IF /\ r.status = "SUCCESS"
                      /\ (best_result.status # "SUCCESS" \/ r.total_rows > best_result.total_rows)
                   THEN r ELSE best_result
       IN BestResult(Tail(rest), keep, current_date)

AuditV2(wb, current_date) ==
  LET best_result == BestResult(DataSheets(wb), NoAudit, current_date)
  IN IF best_result.status = "SUCCESS" THEN best_result
     ELSE AuditError("v2", "No valid date columns found in any sheet")

\* GET /macro/audit-templates for one template; the download may raise.
audit_templates ==
  /\ audit.op = "none"
  /\ book # <<>>
  /\ \E downloaded \in BOOLEAN :
       audit' = IF downloaded THEN AuditV1(book, now) ELSE AuditError("v1", "download")
  /\ UNCHANGED <<book, yvars, tvars, reqs>>

\* GET /macro/audit-templates-v2 for one template; the download may raise.
audit_templates_v2 ==
  /\ audit.op = "none"
  /\ book # <<>>
  /\ \E downloaded \in BOOLEAN :
       audit' = IF downloaded THEN AuditV2(book, now) ELSE AuditError("v2", "download")
  /\ UNCHANGED <<book, yvars, tvars, reqs>>

\* The audited workbooks: columns of AuditRows cells that hold a run of dates,
\* oldest or newest first, daily or monthly, starting before or after the
\* first valid day, with unparseable text in the first cells.
AuditRows == MinRows + 1
RunStarts == {FirstValidDay - 5, LastValidDay - 100}
RunSteps == {1, 30}
JunkCounts == {0, 1, 3, 4}
DateRun(start, step, descending) ==
  [i \in 1..AuditRows |->
     IF descending THEN start + (AuditRows - i) * step ELSE start + (i - 1) * step]
WithJunk(q, k) == [i \in 1..Len(q) |-> IF i <= k THEN Junk ELSE q[i]]
CellColumns ==
  {WithJunk(DateRun(s, p, d), k) :
     s \in RunStarts, p \in RunSteps, d \in BOOLEAN, k \in JunkCounts}
Headers == {"Date", "period", "value"}
Columns == [header : Headers, cells : CellColumns]
DateColumns == {c \in Columns : c.header = "Date"}
OneSheetBooks ==
  {<<[name |-> "Sheet1", cols |-> <<a, b>>]>> :
     a \in Columns, b \in {c \in Columns : c.header # "value"}}
TwoSheetBooks ==
  {<<[name |-> "Sheet1", cols |-> <<a>>], [name |-> n, cols |-> <<b>>]>> :
     a \in DateColumns, b \in DateColumns, n \in {"Sheet2", "Notes"}}
Books == {b \in OneSheetBooks : b[1].cols[1].header # b[1].cols[2].header} \cup TwoSheetBooks
AuditDays == {LastValidDay - 90}

IdleAudit ==
  /\ book = <<>>
  /\ audit = NoAudit

IdleRequests == reqs = <<>>

\* ------------------------------------------------------ concurrent requests
\* Two requests on the yields workbook (any of the four yields handlers and
\* the test-update route), each served by its own thread: a request downloads
\* the stored file, fetches, changes its local copy and uploads it over the
\* stored file. Nothing in the handlers locks the file or
\* compares versions, so the steps of two requests interleave freely.
ConcurrentOps == {"final", "correct", "v2", "endpoint", "cell"}
\* What FRED returns to a request: every series has a value on the dates of S.
Feeds == SUBSET Dates \ {{}}
FeedOn(ids, S) ==
  [s \in ids |-> [kind |-> "ok", observations |-> {[date |-> d, value |-> "1"] : d \in S}]]
\* The cell a test-update request writes.
ConcurrentCell == [sheet_name |-> "Data", row |-> StartRow, col |-> ValueCol, value |-> 9]

\* all_series_data and sorted_dates of the handler op on the local copy wb.
HandlerData(op, S, wb) ==
  IF op = "v2"
  THEN AllSeriesDataV2(FeedOn(AllSeriesIds, S),
         GetCell(wb["Data"].rows, StartRow, DateCol) + 1, MaxDate)
  ELSE AllSeriesData(FeedOn(AllSeriesIds, S))
HandlerDates(op, S, wb) ==
  IF op = "final" THEN SortDesc(MainDates(HandlerData(op, S, wb)).dates)
  ELSE SortDesc(AllDates(HandlerData(op, S, wb)))
\* Whether the handler reaches its upload on the local copy wb.
HandlerUploads(op, S, wb) ==
  CASE op = "endpoint" -> TRUE
    [] op = "cell" -> ConcurrentCell.sheet_name \in DOMAIN wb
    [] op = "v2" -> /\ "Data" \in DOMAIN wb
                    /\ GetCell(wb["Data"].rows, StartRow, DateCol) # Empty
                    /\ HandlerDates(op, S, wb) # <<>>
    [] OTHER -> "Data" \in DOMAIN wb /\ HandlerDates(op, S, wb) # <<>>
\* The workbook the handler saves from the local copy wb.
HandlerResult(op, S, wb) ==
  LET a == HandlerData(op, S, wb)
      sd == HandlerDates(op, S, wb)
  IN CASE op = "endpoint" -> EndpointFrom(wb, FeedOn(EndpointSeries, S), NoStops, 1)
       [] op = "cell" -> CellUpdated(wb, ConcurrentCell)
       [] op = "v2" -> WithData(wb, InsertAndFill(wb["Data"].rows, sd, a))
       [] op = "correct" -> WithData(wb, OverwriteRows(wb["Data"].rows, sd, a))
       [] OTHER -> YieldCurve(ChartsFrom(
                     WithData(wb, OverwriteRows(wb["Data"].rows, sd, a)), Len(sd), 1))

NoLocal == <<>>
NewRequest(op) == [op |-> op, pc |-> "start", local |-> NoLocal, dates |-> {}, uploaded |-> FALSE]

\* google_drive.download_file of request i: the local copy is the stored file
\* of that moment; a download that raises ends the request.
Download(i) ==
  /\ reqs[i].pc = "start"
  /\ \/ reqs' = [reqs EXCEPT ![i] = [@ EXCEPT !.pc = "loaded", !.local = drive]]
     \/ reqs' = [reqs EXCEPT ![i] = [@ EXCEPT !.pc = "done"]]
  /\ UNCHANGED <<yvars, tvars, avars>>

\* The rest of request i: fetch, change the local copy, wb.save and
\* google_drive.upload_file, which replaces the stored file whole.
ChangeAndUpload(i) ==
  /\ reqs[i].pc = "loaded"
  /\ \E S \in Feeds :
       IF HandlerUploads(reqs[i].op, S, reqs[i].local)
       THEN \/ /\ drive' = HandlerResult(reqs[i].op, S, reqs[i].local)
               /\ reqs' = [reqs EXCEPT ![i] = [@ EXCEPT !.pc = "done", !.dates = S,
                                                        !.uploaded = TRUE]]
            \/ /\ drive' = drive
               /\ reqs' = [reqs EXCEPT ![i] = [@ EXCEPT !.pc = "done", !.dates = S]]
       ELSE /\ drive' = drive
            /\ reqs' = [reqs EXCEPT ![i] = [@ EXCEPT !.pc = "done", !.dates = S]]
  /\ UNCHANGED <<pre, asd, sorted_dates, resp, fetch_kind, tvars, avars>>

\* A step of either request.
request_download == \E i \in DOMAIN reqs : Download(i)

request_upload == \E i \in DOMAIN reqs : ChangeAndUpload(i)

\* ---------------------------------------------------------- specifications
IdleTemplates ==
  /\ files = [t \in TemplateSet |-> <<>>]
  /\ source = [t \in TemplateSet |-> <<>>]
  /\ fetch_func = [t \in TemplateSet |-> "ranged"]
  /\ now = MaxDate
  /\ prefiles = files
  /\ result = NoResult
  /\ prev = NoPrev
  /\ summary = NoSummary
  /\ sheets = [t \in TemplateSet |-> WrittenSheets]
  /\ presheets = sheets

IdleYields ==
  /\ drive = <<>>
  /\ pre = drive
  /\ asd = NoData
  /\ sorted_dates = <<>>
  /\ resp = NoResp
  /\ fetch_kind = NoData

\* The days on which a run can happen: the newest date of the model, or the
\* day a freshness window later, on which the newest date is on the bound of
\* the window and the older ones are outside it.
Nows == {MaxDate, MaxDate + FreshDays}

\* The yields handlers, each called once on one of the initial workbooks.
InitYields ==
  /\ drive \in InitWorkbooks
  /\ pre = drive
  /\ asd = NoData
  /\ sorted_dates = <<>>
  /\ resp = NoResp
  /\ fetch_kind = NoData
  /\ IdleTemplates
  /\ IdleAudit
  /\ IdleRequests

NextYields ==
  \/ backfill_yields_final
  \/ backfill_yields_correct
  \/ backfill_yields_v2
  \/ backfill_yields_endpoint
  \/ update_cell_in_drive

SpecYields == InitYields /\ [][NextYields]_vars

\* The sheets of a template workbook: the data sheet alone, or followed by a
\* sheet of notes. The update reads the first sheet.
SheetLists == {<<"Data">>, <<"Data", "Notes">>}

\* Single template updates: one template file, which starts from any stored
\* frame and any source, with either kind of fetch function.
InitTemplates ==
  /\ IdleYields
  /\ IdleAudit
  /\ IdleRequests
  /\ files \in [{Templates[1]} -> FramesUpTo(MaxLen)]
  /\ source \in [{Templates[1]} -> AllAscFrames]
  /\ fetch_func \in [{Templates[1]} -> {"ranged", "latest"}]
  /\ now \in Nows
  /\ prefiles = files
  /\ result = NoResult
  /\ prev = NoPrev
  /\ summary = NoSummary
  /\ sheets \in [{Templates[1]} -> SheetLists]
  /\ presheets = sheets

NextTemplates ==
  \/ backfill_template
  \/ update_template_incremental
  \/ cleanup_old_data
  \/ append_rows_to_drive

SpecTemplates == InitTemplates /\ [][NextTemplates]_vars

\* Batch updates: every template starts from a sorted sheet of its own and
\* reads the same kind of source.
InitBatch ==
  /\ IdleYields
  /\ IdleAudit
  /\ IdleRequests
  /\ files \in [TemplateSet -> UNION {AscFrames(S) : S \in SUBSET {HistoricalFloor}}]
  /\ \E src \in AllAscFrames : source = [t \in TemplateSet |-> src]
  /\ fetch_func = [t \in TemplateSet |-> "ranged"]
  /\ now \in Nows
  /\ prefiles = files
  /\ result = NoResult
  /\ prev = NoPrev
  /\ summary = NoSummary
  /\ sheets = [t \in TemplateSet |-> WrittenSheets]
  /\ presheets = sheets

NextBatch ==
  \/ update_all_macro_templates

SpecBatch == InitBatch /\ [][NextBatch]_vars

\* Audits: either audit, once, of any of the audited workbooks.
InitAudit ==
  /\ IdleYields
  /\ IdleRequests
  /\ files = [t \in TemplateSet |-> <<>>]
  /\ source = [t \in TemplateSet |-> <<>>]
  /\ fetch_func = [t \in TemplateSet |-> "ranged"]
  /\ now \in AuditDays
  /\ prefiles = files
  /\ result = NoResult
  /\ prev = NoPrev
  /\ summary = NoSummary
  /\ sheets = [t \in TemplateSet |-> WrittenSheets]
  /\ presheets = sheets
  /\ book \in Books
  /\ audit = NoAudit

NextAudit ==
  \/ audit_templates
  \/ audit_templates_v2

SpecAudit == InitAudit /\ [][NextAudit]_vars

\* Two concurrent requests on one of the initial workbooks.
InitConcurrent ==
  /\ drive \in InitWorkbooks
  /\ pre = drive
  /\ asd = NoData
  /\ sorted_dates = <<>>
  /\ resp = NoResp
  /\ fetch_kind = NoData
  /\ IdleTemplates
  /\ IdleAudit
  /\ reqs \in {<<NewRequest(a), NewRequest(b)>> : a \in ConcurrentOps, b \in ConcurrentOps}

NextConcurrent ==
  \/ request_download
  \/ request_upload

SpecConcurrent == InitConcurrent /\ [][NextConcurrent]_vars

\* ------------------------------------------------- claims on the handlers
DataRows(wb) == wb["Data"].rows
Overwrote == resp.op \in {"final", "correct"} /\ resp.status = 200
MaxOf(x, y) == IF x >= y THEN x ELSE y

\* The dates on which series s has a non-null fetched value in the last run.
NonNullDates(s) == IF s \in DOMAIN asd THEN DatesOf(asd[s]) ELSE {}
MainIntersection ==
  {d \in Dates : \A i \in 1..Len(main_series) : d \in NonNullDates(main_series[i])}
\* The dates of the rows the last run wrote and uploaded.
DatesWritten ==
  IF resp.status = 200
  THEN {GetCell(DataRows(drive), r, DateCol) : r \in StartRow..(StartRow + resp.rows - 1)}
  ELSE {}
\* The dates the last run had to write: the main intersection in the final
\* handler, the union of all fetched dates in the other two.
Eligible == IF resp.op = "final" THEN MainDates(asd).dates ELSE AllDates(asd)
ReachedFetch ==
  resp.error \notin {"download", "upload", "Data sheet not found", "No date found in A4"}

\* C1: the dates written by the completeness-filtered reconciliation are exactly
\* the dates on which every declared main series has a non-null fetched value.
C1_WrittenIsIntersectionOfAllMain ==
  (resp.op = "final" /\ ReachedFetch) => DatesWritten = MainIntersection

\* C2: every row written by the completeness-filtered reconciliation carries the
\* fetched non-null value of every declared main series, whatever the fetches did.
C2_WrittenRowsHaveEveryMain ==
  (resp.op = "final" /\ resp.status = 200) =>
    \A i \in 1..Len(sorted_dates) : \A k \in 1..Len(main_series) :
      LET s == main_series[k] IN
        /\ sorted_dates[i] \in NonNullDates(s)
        /\ GetCell(DataRows(drive), StartRow + i - 1, all_series[s])
             = ValueOn(asd[s], sorted_dates[i])

\* C3: in a written row, a supplementary column holds the fetched value of its
\* series for the row's date, and is empty when there is none; the date stays written.
C3_SupplementaryCellFetchedOrEmpty ==
  (resp.op = "final" /\ resp.status = 200) =>
    \A i \in 1..Len(sorted_dates) :
      \A s \in AllSeriesIds \ {main_series[k] : k \in 1..Len(main_series)} :
        LET cell == GetCell(DataRows(drive), StartRow + i - 1, all_series[s]) IN
          /\ GetCell(DataRows(drive), StartRow + i - 1, DateCol) = sorted_dates[i]
          /\ IF sorted_dates[i] \in NonNullDates(s)
             THEN cell = ValueOn(asd[s], sorted_dates[i])
             ELSE cell = Empty

\* C4: an overwrite of n eligible dates writes rows 4..4+n-1, one per eligible
\* date, newest first and none blank; it inserts nothing, so every other row
\* that existed keeps its index and its content.
C4_OverwriteFrame ==
  Overwrote =>
    LET old == DataRows(pre)
        new == DataRows(drive)
        n == Len(sorted_dates)
    IN /\ resp.rows = n
       /\ n = Cardinality(Eligible)
       /\ {sorted_dates[i] : i \in 1..n} = Eligible
       /\ Len(new) = MaxOf(Len(old), StartRow + n - 1)
       /\ \A r \in 1..Len(old) :
            (r < StartRow \/ r > StartRow + n - 1) => new[r] = old[r]
       /\ \A i \in 1..n : /\ new[StartRow + i - 1][DateCol] = sorted_dates[i]
                          /\ new[StartRow + i - 1][DateCol] # Empty

\* An overwrite that left older rows below the rows it wrote.
C4_Witness ==
  /\ Overwrote
  /\ Len(sorted_dates) >= 1
  /\ Len(DataRows(pre)) > StartRow + Len(sorted_dates) - 1

\* C5: an overwrite of fewer rows than the table holds from the start row fails
\* with OverwriteRangeAmbiguous and persists nothing.
C5_LongerTableIsRefused ==
  (/\ resp.op \in {"final", "correct"}
   /\ sorted_dates # <<>>
   /\ Len(DataRows(pre)) - (StartRow - 1) > Len(sorted_dates))
    => (resp.status # 200 /\ resp.error = "OverwriteRangeAmbiguous" /\ drive = pre)

\* C6: an insert of n dates at row 4 leaves rows 1..3 as they were, puts the n
\* dates (newest first, none blank) in rows 4..4+n-1, and moves every row that
\* was at r >= 4 to r + n with the same content.
C6_InsertFrame ==
  (resp.op = "v2" /\ resp.status = 200) =>
    LET old == DataRows(pre)
        new == DataRows(drive)
        n == Len(sorted_dates)
    IN /\ resp.rows = n
       /\ n = Cardinality(Eligible)
       /\ {sorted_dates[i] : i \in 1..n} = Eligible
       /\ Len(new) = Len(old) + n
       /\ \A r \in 1..(StartRow - 1) : new[r] = old[r]
       /\ \A r \in StartRow..Len(old) : new[r + n] = old[r]
       /\ \A i \in 1..n : /\ new[StartRow + i - 1][DateCol] = sorted_dates[i]
                          /\ new[StartRow + i - 1][DateCol] # Empty

\* An insert of at least one row above at least one older row.
C6_Witness ==
  /\ resp.op = "v2" /\ resp.status = 200
  /\ resp.rows >= 1
  /\ Len(DataRows(pre)) >= StartRow

\* The last request failed at a step: it answered an error, or the filling of
\* one of its sheets was interrupted. (A series whose fetch failed is a missing
\* series, not a failed step.)
ProcessingFailed ==
  /\ resp.op # "none"
  /\ resp.status # 200 \/ resp.interrupted # {}

\* C10: when a step of a run failed, before or during the upload, the stored
\* workbook is still the prior one.
C10_FailureKeepsPriorWorkbook ==
  ProcessingFailed => drive = pre

\* ------------------------------------------ claims on the template updates
DatesIn(df) == {df[i].Date : i \in 1..Len(df)}
\* The last row of df with date d.
LastRowOn(df, d) ==
  df[CHOOSE i \in 1..Len(df) :
       df[i].Date = d /\ \A j \in (i + 1)..Len(df) : df[j].Date # d]
StrictlyAscending(df) == \A i \in 1..(Len(df) - 1) : df[i].Date < df[i + 1].Date

\* C7: after the append, dedup and sort of an update, the stored dates are
\* strictly ascending (so without duplicate) whatever the overlap of sheet and
\* batch, and on a date of both the stored row is the last fetched one.
C7_AppendDedupSort ==
  (result.op \in UpdateOps /\ result.wrote) =>
    LET old == prefiles[result.template]
        new == files[result.template]
    IN /\ StrictlyAscending(new)
       /\ \A d \in DatesIn(old) \cap DatesIn(result.new_data) :
            \E i \in 1..Len(new) : new[i] = LastRowOn(result.new_data, d)

\* A write whose batch overlaps the sheet on a date with another value, from a
\* sheet that itself held a date twice.
C7_Witness ==
  /\ result.op \in UpdateOps
  /\ result.wrote
  /\ \E d \in DatesIn(prefiles[result.template]) \cap DatesIn(result.new_data) :
       LastRowOn(prefiles[result.template], d) # LastRowOn(result.new_data, d)
  /\ Len(prefiles[result.template]) > Cardinality(DatesIn(prefiles[result.template]))

\* Two completed INCREMENTAL runs in a row on one template, the second with a
\* range-honouring fetch and no observation upstream after the sheet's last date.
SecondRunWithoutNews ==
  /\ result.op = "incremental" /\ result.status = "returned"
  /\ prev.op = "incremental" /\ prev.status = "returned"
  /\ prev.template = result.template
  /\ \A i \in 1..Len(source[result.template]) :
       source[result.template][i].Date <= MaxDateOf(prefiles[result.template])

\* C8: an INCREMENTAL run that follows a completed one, with nothing upstream
\* after the template's last date, reports rows_added = 0 and leaves the sheet as it was.
C8_SecondIncrementalAddsNothing ==
  SecondRunWithoutNews =>
    /\ result.rows_added = 0
    /\ ~result.wrote
    /\ files[result.template] = prefiles[result.template]

\* C9: a run over all templates never raises, whichever steps fail: it returns
\* a summary with one entry per template.
C9_BatchNeverRaises ==
  summary.mode # "none" =>
    /\ ~summary.raised
    /\ Len(summary.details) = Len(Templates)

\* ------------------------------------- claims on failures and empty runs
\* The series whose fetch of the last run did not deliver observations.
FetchFailed == {s \in DOMAIN fetch_kind : fetch_kind[s] # "ok"}
\* The dates on which at least one stored series has a non-null value.
UnionOfFetched == UNION {NonNullDates(s) : s \in DOMAIN asd}

\* C11: a series whose fetch fails does not abort the template: it counts as
\* having no observations, and every other series is reconciled and written.
C11_FailedSeriesIsMissing ==
  (resp.op = "v2" /\ ReachedFetch /\ FetchFailed # {}) =>
    /\ resp.status = 200
    /\ DOMAIN asd = DOMAIN fetch_kind \ FetchFailed
    /\ resp.rows = Cardinality(UnionOfFetched)
    /\ \A i \in 1..Len(sorted_dates) : \A s \in DOMAIN asd :
         sorted_dates[i] \in NonNullDates(s) =>
           GetCell(DataRows(drive), StartRow + i - 1, all_series[s])
             = ValueOn(asd[s], sorted_dates[i])

\* A run in which one fetch raised and the values of another were written.
C11_Witness ==
  /\ resp.op = "v2" /\ resp.status = 200 /\ resp.rows >= 1
  /\ \E s \in DOMAIN fetch_kind : fetch_kind[s] = "raise"
  /\ \E s \in DOMAIN asd : sorted_dates[1] \in NonNullDates(s)

\* A reconciliation that fetched and found no date to write.
NoEligibleDates ==
  /\ resp.op \in {"final", "correct", "v2"}
  /\ ReachedFetch
  /\ sorted_dates = <<>>

\* C12: a reconciliation without eligible date ends without error, reports
\* zero rows, and leaves the stored workbook as it was.
C12_NoEligibleDatesIsNotAnError ==
  NoEligibleDates => (resp.status = 200 /\ resp.rows = 0 /\ drive = pre)

\* ------------------------------------------ claims on the update modes
\* The last template run read its sheet (it did not fail in the read).
ReadSheet == result.op # "none" /\ ~(result.status = "raised" /\ ~result.fetched)
\* staleness_days of the sheet the last run started from.
StalenessDays == now - MaxDateOf(prefiles[result.template])

\* C13: an INCREMENTAL run on a template that is at most FreshDays stale ends
\* with rows_added = 0, without a call of the fetch function and without a write.
C13_FreshIncrementalShortCircuits ==
  (/\ result.op = "incremental" /\ ReadSheet
   /\ Len(prefiles[result.template]) > 0
   /\ StalenessDays <= FreshDays)
    => /\ result.status = "returned"
       /\ result.rows_added = 0
       /\ ~result.fetched
       /\ ~result.wrote

\* 'frequency' of the templates in TEMPLATE_MAPPING.
frequency == [t \in TemplateSet |-> "monthly"]
\* One period of a cadence, in days.
PeriodDays(freq) ==
  CASE freq = "daily" -> 1 [] freq = "monthly" -> 30
    [] freq = "quarterly" -> 90 [] freq = "annual" -> 365

\* C14: the range a BACKFILL run requests starts one period of the template's
\* cadence after the last date of the sheet, or exactly at the historical floor
\* when the sheet holds no data.
C14_BackfillRangeStart ==
  (result.op = "backfill" /\ result.fetched) =>
    result.start =
      IF Len(prefiles[result.template]) = 0 THEN HistoricalFloor
      ELSE MaxDateOf(prefiles[result.template])
             + PeriodDays(frequency[result.template])

\* C15: a returned run summary has one detail entry per configured template,
\* its counts of succeeded (the 'updated' of the summary) and failed templates
\* add up to the total, and failed counts the entries with failed status.
C15_SummaryAccounts ==
  (summary.mode # "none" /\ ~summary.raised) =>
    /\ summary.total_templates = Len(Templates)
    /\ Len(summary.details) = Len(Templates)
    /\ \A i \in 1..Len(summary.details) : summary.details[i].template = Templates[i]
    /\ summary.failed
         = Cardinality({i \in 1..Len(summary.details) : summary.details[i].status = "failed"})
    /\ summary.updated + summary.failed = summary.total_templates

\* ---------------------------------------- claims on the union handlers
\* C16: where no main series is declared (backfill_yields_correct and
\* backfill_yields_v2), a date is written exactly when at least one fetched
\* series has a non-null value for it.
C16_NoMainSeriesWritesUnion ==
  (resp.op \in {"correct", "v2"} /\ ReachedFetch) =>
    /\ DatesWritten = UnionOfFetched
    /\ {sorted_dates[i] : i \in 1..Len(sorted_dates)} = UnionOfFetched

\* A written date that one of the fetched series does not have.
C16_Witness ==
  /\ resp.op \in {"correct", "v2"} /\ resp.status = 200
  /\ \E d \in DatesWritten : \E s \in DOMAIN asd : d \notin NonNullDates(s)

\* ------------------------------------------------ claims on the insert
\* The calls backfill_yields_v2 makes on its collaborators, in order, on the
\* path that inserts rows and answers success.
v2_calls ==
  <<"download_file", "load_workbook", "get_series", "insert_rows", "save",
    "upload_file">>

\* C17: an insert of n > 0 rows that reports success has sent a range-shift
\* notification with row offset n to the chart maintenance.
C17_InsertNotifiesRangeShift ==
  (resp.op = "v2" /\ resp.status = 200 /\ resp.rows > 0) =>
    \E i \in 1..Len(v2_calls) : v2_calls[i] = "range_shift"

\* ------------------------------------- claims on the per-sheet endpoint
\* The dates in column A of a per-series sheet, below its header row.
SheetDates(sh) == [i \in 1..(Len(sh.rows) - 1) |-> sh.rows[i + 1][DateCol]]
StrictlyMonotonic(q) ==
  \/ \A i \in 1..(Len(q) - 1) : q[i] < q[i + 1]
  \/ \A i \in 1..(Len(q) - 1) : q[i] > q[i + 1]
\* The sheets the last run of the endpoint appended rows to.
AppendedSheets ==
  {n \in DOMAIN yield_series \cap DOMAIN pre : drive[n] # pre[n]}

\* C18: a sheet that got fetched rows appended is uploaded with its dates
\* deduplicated and sorted, also when the rows of the backfill were there before.
C18_AppendedSheetIsDedupedAndSorted ==
  (resp.op = "endpoint" /\ resp.status = 200) =>
    \A n \in AppendedSheets : StrictlyMonotonic(SheetDates(drive[n]))

\* --------------------------------------- claims on the overwrite range
\* Every cell of a written date and a series with a fetched value for that
\* date holds that value.
FetchedCellsFilled ==
  \A i \in 1..Len(sorted_dates) : \A s \in DOMAIN asd :
    sorted_dates[i] \in NonNullDates(s) =>
      /\ GetCell(DataRows(drive), StartRow + i - 1, all_series[s]) # Empty
      /\ GetCell(DataRows(drive), StartRow + i - 1, all_series[s])
           = ValueOn(asd[s], sorted_dates[i])

\* C19: an overwrite leaves the occupied row range of the sheet as it
\* was, and fills every cell of a written date whose series has a fetched value.
C19_OverwriteKeepsRowRange ==
  Overwrote =>
    /\ Len(DataRows(drive)) = Len(DataRows(pre))
    /\ FetchedCellsFilled

\* ----------------------------------------- claims on a missing sheet
\* The last handler ran on a workbook that lacks a sheet it writes to.
TargetSheetMissing ==
  /\ resp.error # "download"
  /\ \/ resp.op \in {"final", "correct", "v2"} /\ "Data" \notin DOMAIN pre
     \/ resp.op = "endpoint" /\ ~(DOMAIN yield_series \subseteq DOMAIN pre)

\* C20: when a target sheet is missing the run fails and stores nothing; it
\* never skips the sheet and reports success.
C20_MissingSheetFails ==
  TargetSheetMissing => (resp.status # 200 /\ drive = pre)

\* ---------------------------------------------------- claims on the auditor
\* The sheet and the column that the last successful audit reports.
AuditedSheet ==
  IF audit.op = "v1" THEN book[1]
  ELSE CHOOSE s \in {book[i] : i \in 1..Len(book)} : s.name = audit.sheet_name
AuditedColumn ==
  LET cols == AuditedSheet.cols
  IN CHOOSE c \in {cols[i] : i \in 1..Len(cols)} : c.header = audit.date_column

\* C21: the audited frequency is the classification of the median of the
\* successive deltas of the valid dates taken in ascending order, whatever
\* the row order of the sheet.
C21_CadenceIgnoresRowOrder ==
  audit.status = "SUCCESS" =>
    audit.frequency = Frequency(Diffs(SortInts(ValidDates(AuditedColumn))))

\* The column the ranking selects in a sheet: the columns with a date word in
\* the header are ranked first, then the first three columns; in the first
\* group that has a column with at least half of its cells parseable, the one
\* with the highest share wins, the leftmost among equals; 0 when none qualifies.
RankedDateCol(sheet) ==
  LET n == Len(sheet.cols)
      Qualifies(i) == 2 * ValidCount(sheet.cols[i]) >= Len(sheet.cols[i].cells)
      named == {i \in 1..n : HasWord(date_words, sheet.cols[i].header) /\ Qualifies(i)}
      first3 == {i \in 1..(IF n < 3 THEN n ELSE 3) : Qualifies(i)}
      ok == IF named # {} THEN named ELSE first3
      top == {i \in ok : \A j \in ok : ValidCount(sheet.cols[i]) >= ValidCount(sheet.cols[j])}
  IN IF ok = {} THEN 0 ELSE MinOfSet(top)

\* C22: the date column of a successful audit is the highest-ranked candidate
\* of the audited sheet, never merely the first candidate that passes.
C22_DateColumnIsTopRanked ==
  audit.status = "SUCCESS" =>
    /\ RankedDateCol(AuditedSheet) # 0
    /\ audit.date_column = AuditedSheet.cols[RankedDateCol(AuditedSheet)].header

InValidRange(dates) ==
  MinOfSeq(dates) >= FirstValidDay /\ MaxOfSeq(dates) <= LastValidDay
\* A sheet has a column that passes the parse test of the v2 audit, has
\* enough valid dates, and holds only dates of the valid range.
HasCandidateInRange(sheet) ==
  \E i \in 1..Len(sheet.cols) :
     /\ PassesThreshold(sheet.cols[i])
     /\ Len(ValidDates(sheet.cols[i])) >= MinRows
     /\ InValidRange(ValidDates(sheet.cols[i]))
RangeOfResultIsValid ==
  audit.status = "SUCCESS" =>
    audit.start_date >= FirstValidDay /\ audit.end_date <= LastValidDay
FailsOnlyWithoutCandidate ==
  (audit.status = "ERROR" /\ audit.error = "No valid date columns found in any sheet") =>
    \A i \in 1..Len(DataSheets(book)) : ~HasCandidateInRange(DataSheets(book)[i])

\* C23: no audit result has a first or last date outside the valid range, and
\* a column rejected for its range gives way to the next candidate column of
\* the sheet, the audit failing only when no candidate remains.
C23_OutOfRangeFallsBack == RangeOfResultIsValid /\ FailsOnlyWithoutCandidate

\* C24: of the sheets audited in a workbook the result kept has the most
\* rows, and among those with as many rows the most recent last date,
\* whatever the order of the sheets.
C24_BestSheetIsKept ==
  (audit.op = "v2" /\ audit.status = "SUCCESS") =>
    \A i \in 1..Len(DataSheets(book)) :
       LET r == SheetResult(DataSheets(book)[i], now) IN
       r.status = "SUCCESS" =>
         \/ audit.total_rows > r.total_rows
         \/ audit.total_rows = r.total_rows /\ audit.end_date >= r.end_date

\* ------------------------------------------- claims on the template updates
\* The last date that a run of result.op reads from the stored frame df.
LastDateRead(df) ==
  IF result.op = "backfill" /\ Len(df) = 0 THEN HistoricalFloor ELSE MaxDateOf(df)

\* C25: in a template run the fetch is made over a range that starts the day
\* after the last date read from the stored sheet, only a fetch result is
\* merged, and the sheet is written only with that merge: a run that did not
\* fetch, whose fetch returned nothing or which raised leaves the sheet as it was.
C25_StepsInOrder ==
  result.op \in UpdateOps =>
    LET old == prefiles[result.template]
        new == files[result.template]
    IN /\ result.fetched => result.start = AddDays(LastDateRead(old), 1)
       /\ ~result.fetched => result.new_data = <<>>
       /\ result.wrote =>
            /\ result.fetched
            /\ result.status = "returned"
            /\ result.new_data # <<>>
            /\ new = MergeAppend(old, result.new_data)
       /\ (result.new_data = <<>> \/ result.status = "raised") =>
            ~result.wrote /\ new = old
       /\ ~result.wrote => new = old

\* An incremental run that read a sheet with rows, fetched and wrote a merge
\* that changed the sheet.
C25_Witness ==
  /\ result.op = "incremental"
  /\ result.wrote
  /\ Len(prefiles[result.template]) > 0
  /\ files[result.template] # prefiles[result.template]

\* The rows of df with date d.
RowsOn(df, d) == {df[i] : i \in {j \in 1..Len(df) : df[j].Date = d}}

\* C26: an update loses no history: every date of the stored sheet is still
\* there afterwards, and on a date that is not in the fetched batch the sheet
\* holds the row it held before (the last one, had the sheet held several).
C26_HistoryIsKept ==
  result.op \in UpdateOps =>
    LET old == prefiles[result.template]
        new == files[result.template]
    IN \A d \in DatesIn(old) :
         /\ d \in DatesIn(new)
         /\ d \notin DatesIn(result.new_data) => RowsOn(new, d) \subseteq RowsOn(old, d)
         /\ (d \notin DatesIn(result.new_data) /\ result.wrote) =>
              RowsOn(new, d) = {LastRowOn(old, d)}

\* A write on a sheet that holds a date outside the fetched batch and a date
\* inside it.
C26_Witness ==
  /\ result.op \in UpdateOps
  /\ result.wrote
  /\ DatesIn(prefiles[result.template]) \ DatesIn(result.new_data) # {}
  /\ DatesIn(prefiles[result.template]) \cap DatesIn(result.new_data) # {}

SheetNames(names) == {names[i] : i \in 1..Len(names)}

\* C27: an update changes only the data sheet of the template: every other
\* sheet of the workbook is still there afterwards, and the sheet the next
\* run reads (the first one) is the sheet this run wrote.
C27_OtherSheetsAreKept ==
  result.op \in UpdateOps =>
    /\ SheetNames(presheets[result.template]) \subseteq SheetNames(sheets[result.template])
    /\ result.wrote => sheets[result.template][1] = "Data"

\* C28: the rows_added an update reports is the net growth of the stored
\* sheet: fetched rows merged into a date that was already stored do not count.
C28_RowsAddedIsNetGrowth ==
  result.op \in UpdateOps =>
    result.rows_added = Len(files[result.template]) - Len(prefiles[result.template])

\* -------------------------------------------- further claims on the handlers
\* The dates of the data region of a 'Data' sheet, top down.
RegionDates(rows) == [i \in 1..(Len(rows) - StartRow + 1) |-> rows[StartRow + i - 1][DateCol]]
StrictlyDescending(q) == \A i \in 1..(Len(q) - 1) : q[i] > q[i + 1]

\* C29: an insert backfill on a data region that is strictly descending by
\* date leaves it strictly descending: every inserted date is later than the
\* newest date before, and the inserted block itself is strictly descending.
C29_InsertKeepsDescending ==
  (/\ resp.op = "v2" /\ resp.status = 200
   /\ StrictlyDescending(RegionDates(DataRows(pre)))) =>
    LET n == resp.rows
        new == RegionDates(DataRows(drive))
    IN /\ StrictlyDescending(new)
       /\ StrictlyDescending(SubSeq(new, 1, n))
       /\ \A i \in 1..n : new[i] > GetCell(DataRows(pre), StartRow, DateCol)

\* An insert of a block of at least two dates above at least two older rows.
C29_Witness ==
  /\ resp.op = "v2" /\ resp.status = 200
  /\ resp.rows >= 2
  /\ Len(RegionDates(DataRows(pre))) >= 2

\* The workbook left by request i run alone, start to end, on wb: the stored
\* file is replaced only by a request whose upload succeeded.
RunAlone(i, wb) ==
  IF reqs[i].uploaded /\ HandlerUploads(reqs[i].op, reqs[i].dates, wb)
  THEN HandlerResult(reqs[i].op, reqs[i].dates, wb)
  ELSE wb

\* C30: when two concurrent requests on the workbook have ended, the stored
\* workbook is the one that the two requests, run one after the other in some
\* order on the workbook they started from, would have left.
C30_ConcurrentIsSerializable ==
  (\A i \in DOMAIN reqs : reqs[i].pc = "done") =>
    drive \in {RunAlone(2, RunAlone(1, pre)), RunAlone(1, RunAlone(2, pre))}

====
